---------------------------- MODULE Spec2Model ----------------------------
(***************************************************************************)
(* The POST /enhance request lifecycle of the Vibe Coder server            *)
(* (server.js): zod validation, DOMPurify sanitisation, one call to        *)
(* model.generateContent raced against a setTimeout timer, and the ordered *)
(* error classification of the catch block.                                *)
(*                                                                         *)
(* Strings.  A request input is represented by its shape: the number of    *)
(* leading whitespace characters, the number of characters of its trimmed  *)
(* core and the number of trailing whitespace characters (String.length    *)
(* is their sum, String.trim() removes the two pads).  Error messages and  *)
(* response texts are sequences of fragments; s.includes(f) is fragment    *)
(* membership and s === t is sequence equality.                            *)
(*                                                                         *)
(* Specifications.  Spec and FairSpec follow one run of the handler, with  *)
(* the timer free to fire whenever it is armed.  TimedSpec adds the clock  *)
(* of the timer, LimiterSpec the rate limiter in front of /health and      *)
(* /enhance, ClientSpec the useEnhanceIdea hook of Hero.tsx calling the    *)
(* server.                                                                 *)
(***************************************************************************)
EXTENDS Integers, Sequences, FiniteSets, TLC

VARIABLES
    pc,                 \* position of the async handler: idle, awaiting, done
    req,                \* req.body of the request being handled
    prompt,             \* the sanitized input interpolated into masterPrompt
    calls,              \* number of model.generateContent invocations
    provider,           \* state of generatePromise
    timer,              \* state of the setTimeout timer (timeoutId)
    race,               \* state of Promise.race([generatePromise, timeoutPromise])
    timerBeatProvider,  \* history: the timer fired while generatePromise was pending
    responses,          \* the responses written to res, in order
    escaped,            \* an exception left the handler
    elapsed,            \* milliseconds since the timer was armed
    hits,               \* the limiter's request count of the client's IP in this window
    health,             \* the response to the latest GET /health
    ui,                 \* the state of useEnhanceIdea: input, output, loading
    fetch               \* the state of the fetch started by enhanceIdea

\* the state of one run of the /enhance handler
handlerVars == <<pc, req, prompt, calls, provider, timer, race, timerBeatProvider,
                 responses, escaped>>

\* the state around the handler: clock, rate limiter, health route, client
envVars == <<elapsed, hits, health, ui, fetch>>

vars == <<pc, req, prompt, calls, provider, timer, race, timerBeatProvider,
          responses, escaped, elapsed, hits, health, ui, fetch>>

---------------------------------------------------------------------------
(* Bounds of the model *)

MaxPad == 1       \* longest whitespace pad on either side of an input
MaxMsgLen == 1    \* most fragments in a provider error message
MaxTextLen == 1   \* most fragments in a text returned by the provider

---------------------------------------------------------------------------
(* Program constants *)

MIN_INPUT == 1
MAX_INPUT == 1000
REQUEST_TIMEOUT == 60000
DOCUMENTED_TIMEOUT == 30000   \* README: 30-second timeout on AI requests
LIMITER_MAX == 100
TEXTAREA_MAX == 1000
NoStatus == 0     \* error.status === undefined

STATUS_OK == 200
STATUS_BAD_REQUEST == 400
STATUS_FORBIDDEN == 403
STATUS_TIMEOUT == 408
STATUS_TOO_MANY == 429
STATUS_SERVER_ERROR == 500

GEMINI_MODEL == "gemini-2.5-flash"
LIMITER_MESSAGE == <<"Too many requests from this IP, please try again later.">>
CLIENT_ERROR_TEXT == <<"Error: Could not enhance the idea. Please try again.">>

\* the texts of the source, without their emoji and abridged where they are long
TIMEOUT_MESSAGE == <<"Request timeout">>
INVALID_INPUT_TEXT == <<"Invalid input">>
TIMED_OUT_TEXT == <<"Request timed out.">>
API_KEY_TEXT == <<"# API Key Error ... Generate a new API key ... Update the GEMINI_API_KEY environment variable ... Redeploy your service ... **Error:** ">>
API_KEY_DEFAULT == <<"API key invalid or leaked">>
QUOTA_TEXT == <<"# Quota Exceeded ... Gemini API is currently busy. Please try again in 1 minute. (This is a fallback response)">>
CONFIG_TEXT == <<"# Configuration Error ... Model name is valid ... API key is correct ... **Error:** ">>
CONFIG_DEFAULT == <<"Invalid configuration">>
GENERIC_TEXT == <<"# Error Connecting to AI ... **Error:** ">>
GENERIC_DEFAULT == <<"Unknown error">>
GENERIC_TAIL == <<" Please check server logs for more details.">>

---------------------------------------------------------------------------
(* Values *)

RECURSIVE SeqsUpTo(_, _)
SeqsUpTo(S, n) ==
    IF n = 0 THEN {<<>>}
    ELSE LET shorter == SeqsUpTo(S, n - 1)
         IN  shorter \cup {Append(s, x) : s \in {t \in shorter : Len(t) = n - 1}, x \in S}

\* fragments an error message is made of: the substrings the handler looks for
\* and one fragment that matches none of them
Fragments == {"Request timeout", "API key", "leaked", "403", "429", "model",
              "invalid", "other"}

\* fragments of a text the provider generates
TextFragments == {" ", "<script>", "text"}

CoreLens == {0, 1, MAX_INPUT - 1, MAX_INPUT, MAX_INPUT + 1}

\* req.body.input: a string of the given shape, or a value that is not a string
Inputs ==
    [isString : {TRUE}, lead : 0..MaxPad, core : CoreLens, trail : 0..MaxPad,
     script : BOOLEAN]
    \cup {[isString |-> FALSE, lead |-> 0, core |-> 0, trail |-> 0, script |-> FALSE]}

NoInput == [isString |-> FALSE, lead |-> 0, core |-> 0, trail |-> 0, script |-> FALSE]

\* the string ''
EmptyString == [isString |-> TRUE, lead |-> 0, core |-> 0, trail |-> 0, script |-> FALSE]

Length(s) == s.lead + s.core + s.trail

Trim(s) == [s EXCEPT !.lead = 0, !.trail = 0]

Sanitize(s) == [s EXCEPT !.script = FALSE]

\* an error value: a ZodError, or an Error-like value of the provider
NoError == [zod |-> FALSE, status |-> NoStatus, hasMessage |-> FALSE, message |-> <<>>]

ZodError == [zod |-> TRUE, status |-> NoStatus, hasMessage |-> TRUE, message |-> <<"other">>]

TimeoutError == [zod |-> FALSE, status |-> NoStatus, hasMessage |-> TRUE,
                 message |-> TIMEOUT_MESSAGE]

ErrorStatuses == {NoStatus, STATUS_BAD_REQUEST, STATUS_FORBIDDEN, STATUS_TOO_MANY,
                  STATUS_SERVER_ERROR}

ProviderErrors ==
    [zod : {FALSE}, status : ErrorStatuses, hasMessage : {TRUE},
     message : SeqsUpTo(Fragments, MaxMsgLen)]
    \cup [zod : {FALSE}, status : ErrorStatuses, hasMessage : {FALSE}, message : {<<>>}]

\* the value generatePromise resolves with: result.response.text() returns
\* text, or throws err
NoResult == [textThrows |-> FALSE, text |-> <<>>, err |-> NoError]

ProviderResults ==
    [textThrows : {FALSE}, text : SeqsUpTo(TextFragments, MaxTextLen), err : {NoError}]
    \cup [textThrows : {TRUE}, text : {<<>>}, err : ProviderErrors]

Response(status, field, text) == [status |-> status, field |-> field, text |-> text]

PendingRace == [state |-> "pending", result |-> NoResult, reason |-> NoError]

Fulfilled(result) == [state |-> "fulfilled", result |-> result, reason |-> NoError]

Rejected(reason) == [state |-> "rejected", result |-> NoResult, reason |-> reason]

---------------------------------------------------------------------------
(* Input gate: enhanceRequestSchema.parse *)

\* z.string().min(1).max(1000).trim(): zod runs the checks of a string schema
\* in the order they were added, so min and max see the string as received and
\* trim then rewrites the value that parse returns
Parse(body) ==
    IF ~body.isString THEN [ok |-> FALSE, input |-> NoInput]
    ELSE IF Length(body) < MIN_INPUT THEN [ok |-> FALSE, input |-> NoInput]
    ELSE IF Length(body) > MAX_INPUT THEN [ok |-> FALSE, input |-> NoInput]
    ELSE [ok |-> TRUE, input |-> Trim(body)]

---------------------------------------------------------------------------
(* Error classification: the catch block of the handler *)

\* error.message?.includes(f)
Includes(error, f) ==
    /\ error.hasMessage
    /\ \E i \in 1..Len(error.message) : error.message[i] = f

\* error.message || default
MessageOr(error, default) ==
    IF error.hasMessage /\ error.message # <<>> THEN error.message ELSE default

TimeoutResponse == Response(STATUS_TIMEOUT, "enhanced", TIMED_OUT_TEXT)

InvalidInputResponse == Response(STATUS_BAD_REQUEST, "error", INVALID_INPUT_TEXT)

ApiKeyResponse(error) ==
    Response(STATUS_SERVER_ERROR, "enhanced", API_KEY_TEXT \o MessageOr(error, API_KEY_DEFAULT))

QuotaResponse == Response(STATUS_OK, "enhanced", QUOTA_TEXT)

ConfigResponse(error) ==
    Response(STATUS_SERVER_ERROR, "enhanced", CONFIG_TEXT \o MessageOr(error, CONFIG_DEFAULT))

GenericResponse(error) ==
    Response(STATUS_SERVER_ERROR, "enhanced",
             GENERIC_TEXT \o MessageOr(error, GENERIC_DEFAULT) \o GENERIC_TAIL)

\* the rate-limit branch placed before the credential branch
Classify_QuotaFirst(error) ==
    IF error.zod THEN InvalidInputResponse
    ELSE IF error.hasMessage /\ error.message = TIMEOUT_MESSAGE THEN TimeoutResponse
    ELSE IF error.status = STATUS_TOO_MANY \/ Includes(error, "429") THEN QuotaResponse
    ELSE IF \/ error.status = STATUS_FORBIDDEN
            \/ Includes(error, "API key")
            \/ Includes(error, "leaked")
            \/ Includes(error, "403")
         THEN ApiKeyResponse(error)
    ELSE IF \/ error.status = STATUS_BAD_REQUEST
            \/ Includes(error, "model")
            \/ Includes(error, "invalid")
         THEN ConfigResponse(error)
    ELSE GenericResponse(error)

\* the rate-limit branch looking at error.status only
Classify_QuotaStatusOnly(error) ==
    IF error.zod THEN InvalidInputResponse
    ELSE IF error.hasMessage /\ error.message = TIMEOUT_MESSAGE THEN TimeoutResponse
    ELSE IF \/ error.status = STATUS_FORBIDDEN
            \/ Includes(error, "API key")
            \/ Includes(error, "leaked")
            \/ Includes(error, "403")
         THEN ApiKeyResponse(error)
    ELSE IF error.status = STATUS_TOO_MANY THEN QuotaResponse
    ELSE IF \/ error.status = STATUS_BAD_REQUEST
            \/ Includes(error, "model")
            \/ Includes(error, "invalid")
         THEN ConfigResponse(error)
    ELSE GenericResponse(error)

\* the chain of if ... return statements: the first branch whose condition
\* holds writes the response
Classify(error) ==
    IF error.zod THEN InvalidInputResponse
    ELSE IF error.hasMessage /\ error.message = TIMEOUT_MESSAGE THEN TimeoutResponse
    ELSE IF \/ error.status = STATUS_FORBIDDEN
            \/ Includes(error, "API key")
            \/ Includes(error, "leaked")
            \/ Includes(error, "403")
         THEN ApiKeyResponse(error)
    ELSE IF error.status = STATUS_TOO_MANY \/ Includes(error, "429") THEN QuotaResponse
    ELSE IF \/ error.status = STATUS_BAD_REQUEST
            \/ Includes(error, "model")
            \/ Includes(error, "invalid")
         THEN ConfigResponse(error)
    ELSE GenericResponse(error)

\* what a stretch of the handler does: the responses it writes to res and
\* whether an exception leaves the handler
Wrote(rs) == [written |-> rs, threw |-> FALSE]

Threw == [written |-> <<>>, threw |-> TRUE]

\* error.message.includes in place of error.message?.includes: a TypeError
\* raised inside the catch block leaves the handler
OuterCatch_NoOptionalChaining(error) ==
    IF error.zod THEN Wrote(<<InvalidInputResponse>>)
    ELSE IF error.status # STATUS_FORBIDDEN /\ ~error.hasMessage THEN Threw
    ELSE Wrote(<<Classify(error)>>)

\* catch (error) { ... } of the handler
OuterCatch(error) == Wrote(<<Classify(error)>>)

\* the 408 response written without return: control reaches throw raceError
InnerCatch_NoReturn(raceError) ==
    IF raceError.hasMessage /\ raceError.message = TIMEOUT_MESSAGE
    THEN Wrote(<<TimeoutResponse>> \o OuterCatch(raceError).written)
    ELSE OuterCatch(raceError)

\* catch (raceError) { ... } around the await
InnerCatch(raceError) ==
    IF raceError.hasMessage /\ raceError.message = TIMEOUT_MESSAGE
    THEN Wrote(<<TimeoutResponse>>)
    ELSE OuterCatch(raceError)

\* the provider's text with surrounding whitespace and markup removed
CleanText(text) == SelectSeq(text, LAMBDA f : f \notin {" ", "<script>"})

\* the provider's text cleaned before it is sent
Success_Cleaned(result) ==
    IF result.textThrows THEN OuterCatch(result.err)
    ELSE Wrote(<<Response(STATUS_OK, "enhanced", CleanText(result.text))>>)

\* const finalOutput = result.response.text(); res.json({ enhanced: finalOutput })
Success(result) ==
    IF result.textThrows THEN OuterCatch(result.err)
    ELSE Wrote(<<Response(STATUS_OK, "enhanced", result.text)>>)

---------------------------------------------------------------------------
(* Promise.race *)

\* a promise that is settled again takes the later value
SettleRace_LastWins(r, outcome) == outcome

\* a promise settles once: the first of the two promises to settle decides
SettleRace(r, outcome) == IF r.state = "pending" THEN outcome ELSE r

---------------------------------------------------------------------------
(* The synchronous part of the handler, up to the await *)

\* generateContent called before the request body is validated
Begin_CallBeforeParse(body) ==
    LET parsed == Parse(body)
    IN  IF parsed.ok
        THEN [awaits |-> TRUE, calls |-> 1, prompt |-> Sanitize(parsed.input),
              out |-> Wrote(<<>>)]
        ELSE [awaits |-> FALSE, calls |-> 1, prompt |-> NoInput,
              out |-> OuterCatch(ZodError)]

\* parse, sanitize, build the prompt, call generateContent once, arm the timer
Begin(body) ==
    LET parsed == Parse(body)
    IN  IF parsed.ok
        THEN [awaits |-> TRUE, calls |-> 1, prompt |-> Sanitize(parsed.input),
              out |-> Wrote(<<>>)]
        ELSE [awaits |-> FALSE, calls |-> 0, prompt |-> NoInput,
              out |-> OuterCatch(ZodError)]

---------------------------------------------------------------------------
(* State machine *)

Init ==
    /\ pc = "idle"
    /\ req = NoInput
    /\ prompt = NoInput
    /\ calls = 0
    /\ provider = "none"
    /\ timer = "none"
    /\ race = PendingRace
    /\ timerBeatProvider = FALSE
    /\ responses = <<>>
    /\ escaped = FALSE
    /\ elapsed = 0
    /\ hits = 0
    /\ health = <<>>
    /\ ui = [input |-> EmptyString, output |-> <<>>, loading |-> FALSE]
    /\ fetch = [state |-> "none", body |-> EmptyString]

\* app.post('/enhance', async (req, res) => ...) runs up to its await, or to
\* the 400 response when the body is invalid
Enhance ==
    /\ pc = "idle"
    /\ \E body \in Inputs :
          LET b == Begin(body)
          IN  /\ req' = body
              /\ prompt' = b.prompt
              /\ calls' = calls + b.calls
              /\ provider' = IF b.calls > 0 THEN "pending" ELSE "none"
              /\ timer' = IF b.awaits THEN "armed" ELSE "none"
              /\ pc' = IF b.awaits THEN "awaiting" ELSE "done"
              /\ responses' = responses \o b.out.written
              /\ escaped' = b.out.threw
    /\ UNCHANGED <<race, timerBeatProvider>>
    /\ UNCHANGED envVars

\* generatePromise resolves
ProviderResolve ==
    /\ provider = "pending"
    /\ \E result \in ProviderResults :
          race' = SettleRace(race, Fulfilled(result))
    /\ provider' = "fulfilled"
    /\ UNCHANGED <<pc, req, prompt, calls, timer, timerBeatProvider, responses, escaped>>
    /\ UNCHANGED envVars

\* generatePromise rejects
ProviderReject ==
    /\ provider = "pending"
    /\ \E error \in ProviderErrors :
          race' = SettleRace(race, Rejected(error))
    /\ provider' = "rejected"
    /\ UNCHANGED <<pc, req, prompt, calls, timer, timerBeatProvider, responses, escaped>>
    /\ UNCHANGED envVars

\* the setTimeout callback: reject(new Error('Request timeout'))
TimerFire ==
    /\ timer = "armed"
    /\ timer' = "fired"
    /\ race' = SettleRace(race, Rejected(TimeoutError))
    /\ timerBeatProvider' = (provider = "pending")
    /\ UNCHANGED <<pc, req, prompt, calls, provider, responses, escaped>>
    /\ UNCHANGED envVars

\* the handler continues after await Promise.race(...)
Resume ==
    /\ pc = "awaiting"
    /\ race.state # "pending"
    /\ LET out == IF race.state = "fulfilled" THEN Success(race.result)
                  ELSE InnerCatch(race.reason)
       IN  /\ responses' = responses \o out.written
           /\ escaped' = out.threw
    /\ timer' = IF timer = "armed" THEN "cleared" ELSE timer
    /\ pc' = "done"
    /\ UNCHANGED <<req, prompt, calls, provider, race, timerBeatProvider>>
    /\ UNCHANGED envVars

Next ==
    \/ Enhance
    \/ ProviderResolve
    \/ ProviderReject
    \/ TimerFire
    \/ Resume

Spec == Init /\ [][Next]_vars

\* Node runs a due timer callback and a continuation of a settled promise
FairSpec == Spec /\ WF_vars(TimerFire) /\ WF_vars(Resume)

---------------------------------------------------------------------------
(* The handler with the clock of its timer *)

\* the instants the clock is observed at, in milliseconds after setTimeout
Instants == {DOCUMENTED_TIMEOUT, DOCUMENTED_TIMEOUT + 1, REQUEST_TIMEOUT}

\* time passes while the timer is armed; the callback of setTimeout runs when
\* its delay is over, so the clock does not pass REQUEST_TIMEOUT before it
Tick ==
    /\ timer = "armed"
    /\ \E t \in Instants :
          /\ t > elapsed
          /\ t <= REQUEST_TIMEOUT
          /\ elapsed' = t
    /\ UNCHANGED handlerVars
    /\ UNCHANGED <<hits, health, ui, fetch>>

\* setTimeout(..., REQUEST_TIMEOUT): the callback runs once the delay is over
TimedTimerFire ==
    /\ elapsed >= REQUEST_TIMEOUT
    /\ TimerFire

TimedNext ==
    \/ Enhance
    \/ ProviderResolve
    \/ ProviderReject
    \/ Tick
    \/ TimedTimerFire
    \/ Resume

TimedSpec == Init /\ [][TimedNext]_vars

---------------------------------------------------------------------------
(* The server behind its rate limiter: app.use(limiter), /health, /enhance *)

HealthResponse == Response(STATUS_OK, "status", <<"OK", GEMINI_MODEL>>)

LimiterResponse == Response(STATUS_TOO_MANY, "message", LIMITER_MESSAGE)

\* rateLimit({ max: 100 }): a request passes while the count of its IP in the
\* current window, this request included, does not exceed max
LimiterPasses(count) == count <= LIMITER_MAX

\* the handler starts on a request in a closure of its own
HandlerEntry(body) ==
    LET b == Begin(body)
    IN  /\ req' = body
        /\ prompt' = b.prompt
        /\ calls' = b.calls
        /\ provider' = IF b.calls > 0 THEN "pending" ELSE "none"
        /\ timer' = IF b.awaits THEN "armed" ELSE "none"
        /\ pc' = IF b.awaits THEN "awaiting" ELSE "done"
        /\ responses' = b.out.written
        /\ escaped' = b.out.threw
        /\ race' = PendingRace
        /\ timerBeatProvider' = FALSE

\* the limiter answers the request itself: the route handler does not run
LimiterBlocks(body) ==
    /\ req' = body
    /\ prompt' = NoInput
    /\ calls' = 0
    /\ provider' = "none"
    /\ timer' = "none"
    /\ pc' = "done"
    /\ responses' = <<LimiterResponse>>
    /\ escaped' = FALSE
    /\ race' = PendingRace
    /\ timerBeatProvider' = FALSE

\* GET /health through app.use(limiter); the count is followed up to the
\* first request that the limiter blocks
Health ==
    /\ hits <= LIMITER_MAX
    /\ hits' = hits + 1
    /\ health' = IF LimiterPasses(hits + 1) THEN <<HealthResponse>>
                 ELSE <<LimiterResponse>>
    /\ UNCHANGED handlerVars
    /\ UNCHANGED <<elapsed, ui, fetch>>

\* POST /enhance through app.use(limiter): the limiter counts the request
\* before the route runs and whatever the route answers (skipFailedRequests
\* and skipSuccessfulRequests are not set).  A request that passes is handed
\* to the handler, whose run is the subject of Spec and reads or writes
\* nothing of the limiter; a request over the limit is answered here.
LimitedEnhance ==
    /\ hits <= LIMITER_MAX
    /\ hits' = hits + 1
    /\ IF LimiterPasses(hits + 1) THEN UNCHANGED handlerVars
       ELSE \E body \in Inputs : LimiterBlocks(body)
    /\ UNCHANGED <<elapsed, health, ui, fetch>>

\* windowMs is over: the limiter forgets the count
WindowReset ==
    /\ hits > 0
    /\ hits' = 0
    /\ UNCHANGED handlerVars
    /\ UNCHANGED <<elapsed, health, ui, fetch>>

LimiterNext ==
    \/ Health
    \/ LimitedEnhance
    \/ WindowReset

LimiterSpec == Init /\ [][LimiterNext]_vars

---------------------------------------------------------------------------
(* The client: useEnhanceIdea of Hero.tsx, talking to the server *)

\* what the textarea (maxLength 1000) and the idea buttons put in input: the
\* hook tells blank inputs from the others and sends the input untrimmed, so
\* the inputs followed are '', a blank string, and a short idea with and
\* without a pad in front
ClientInputs ==
    {s \in Inputs : /\ s.isString
                    /\ Length(s) <= TEXTAREA_MAX
                    /\ s.core <= MIN_INPUT
                    /\ s.trail = 0
                    /\ ~s.script}

\* !state.input.trim()
Blank(s) == Length(Trim(s)) = 0

\* response.ok
Ok(r) == r.status >= 200 /\ r.status <= 299

\* data.enhanced of a body without that field
UNDEFINED == <<"undefined">>

\* data.enhanced
EnhancedOf(r) == IF r.field = "enhanced" THEN r.text ELSE UNDEFINED

\* the catch block leaving loading as it was
AfterFetch_LoadingKept(state, settled, r, parsable) ==
    IF settled /\ Ok(r) /\ parsable
    THEN [state EXCEPT !.output = EnhancedOf(r), !.loading = FALSE]
    ELSE [state EXCEPT !.output = CLIENT_ERROR_TEXT]

\* enhanceIdea after await fetch(...): settled is false when fetch rejected,
\* r is the response it resolved with, parsable says whether response.json()
\* resolves
AfterFetch(state, settled, r, parsable) ==
    IF settled /\ Ok(r) /\ parsable
    THEN [state EXCEPT !.output = EnhancedOf(r), !.loading = FALSE]
    ELSE [state EXCEPT !.output = CLIENT_ERROR_TEXT, !.loading = FALSE]

\* setInput(value), from the textarea or an idea button; the user edits the
\* input between calls (a call in flight has captured the input it sends)
SetInput ==
    /\ ~ui.loading
    /\ \E value \in ClientInputs :
          /\ value # ui.input
          /\ ui' = [ui EXCEPT !.input = value]
    /\ UNCHANGED handlerVars
    /\ UNCHANGED <<elapsed, hits, health, fetch>>

\* enhanceIdea() up to its await; the Magic button is disabled while loading
EnhanceIdea ==
    /\ ~ui.loading
    /\ IF Blank(ui.input)
       THEN UNCHANGED <<ui, fetch>>
       ELSE /\ ui' = [ui EXCEPT !.loading = TRUE, !.output = <<>>]
            /\ fetch' = [state |-> "sent", body |-> ui.input]
    /\ UNCHANGED handlerVars
    /\ UNCHANGED <<elapsed, hits, health>>

\* the request reaches the server once the request before it is answered;
\* count is the limiter's count for the client's address, which this model
\* does not follow (other clients share the address)
Deliver ==
    /\ fetch.state = "sent"
    /\ pc \in {"idle", "done"}
    /\ \E count \in {1, LIMITER_MAX + 1} :
          IF LimiterPasses(count) THEN HandlerEntry(fetch.body)
          ELSE LimiterBlocks(fetch.body)
    /\ fetch' = [fetch EXCEPT !.state = "delivered"]
    /\ UNCHANGED <<elapsed, hits, health, ui>>

\* fetch resolves with the server's response; its body may not parse
Receive ==
    /\ fetch.state = "delivered"
    /\ responses # <<>>
    /\ \E parsable \in BOOLEAN :
          /\ ui' = AfterFetch(ui, TRUE, responses[1], parsable)
          /\ fetch' = [fetch EXCEPT !.state = IF parsable THEN "received"
                                              ELSE "unparsed"]
    /\ UNCHANGED handlerVars
    /\ UNCHANGED <<elapsed, hits, health>>

\* fetch rejects: the network failed on the way to the server or back
NetworkFail ==
    /\ fetch.state \in {"sent", "delivered"}
    /\ ui' = AfterFetch(ui, FALSE, LimiterResponse, FALSE)
    /\ fetch' = [fetch EXCEPT !.state = "failed"]
    /\ UNCHANGED handlerVars
    /\ UNCHANGED <<elapsed, hits, health>>

ClientNext ==
    \/ SetInput
    \/ EnhanceIdea
    \/ Deliver
    \/ Receive
    \/ NetworkFail
    \/ ProviderResolve
    \/ ProviderReject
    \/ TimerFire
    \/ Resume

ClientSpec == Init /\ [][ClientNext]_vars

TypeOK ==
    /\ pc \in {"idle", "awaiting", "done"}
    /\ req \in Inputs
    /\ calls \in Nat
    /\ provider \in {"none", "pending", "fulfilled", "rejected"}
    /\ timer \in {"none", "armed", "fired", "cleared"}
    /\ race.state \in {"pending", "fulfilled", "rejected"}
    /\ timerBeatProvider \in BOOLEAN
    /\ escaped \in BOOLEAN
    /\ elapsed \in 0..REQUEST_TIMEOUT
    /\ hits \in 0..(LIMITER_MAX + 1)
    /\ Len(health) <= 1
    /\ ui.input \in Inputs
    /\ ui.loading \in BOOLEAN
    /\ fetch.state \in {"none", "sent", "delivered", "received", "unparsed", "failed"}

---------------------------------------------------------------------------
(* Vocabulary of the properties *)

TrimmedLength(body) == Length(Trim(body))

RespondedWith(r) == responses = <<r>>

\* the provider's rejection decided the race and the handler has dealt with it
ProviderRejectionHandled ==
    /\ pc = "done"
    /\ race.state = "rejected"
    /\ provider = "rejected"
    /\ ~timerBeatProvider

\* the provider's result decided the race and the handler has dealt with it
ProviderResultHandled ==
    /\ pc = "done"
    /\ race.state = "fulfilled"
    /\ ~timerBeatProvider

MessageIs(e, m) == e.hasMessage /\ e.message = m

Mentions(e, f) == e.hasMessage /\ \E i \in DOMAIN e.message : e.message[i] = f

RateLimitSignal(e) == e.status = STATUS_TOO_MANY \/ Mentions(e, "429")

CredentialSignal(e) ==
    \/ e.status = STATUS_FORBIDDEN
    \/ Mentions(e, "API key")
    \/ Mentions(e, "leaked")
    \/ Mentions(e, "403")

ConfigurationSignal(e) ==
    \/ e.status = STATUS_BAD_REQUEST
    \/ Mentions(e, "model")
    \/ Mentions(e, "invalid")

---------------------------------------------------------------------------
(* C1 *)

\* C1: a request whose input is a string of trimmed length 0 or more than
\* 1000 is answered 400 {error: 'Invalid input'} and generateContent is not
\* invoked for it.
C1_Claim ==
    (/\ pc # "idle"
     /\ req.isString
     /\ (TrimmedLength(req) = 0 \/ TrimmedLength(req) > MAX_INPUT))
    => (RespondedWith(InvalidInputResponse) /\ calls = 0)

---------------------------------------------------------------------------
(* C2 *)

\* C2: a request is rejected with 400 only when its input is not a string or
\* its trimmed length is outside 1..1000: every string whose trimmed length is
\* in 1..1000 passes validation and reaches the provider call.
C2_Claim ==
    (/\ pc # "idle"
     /\ req.isString
     /\ TrimmedLength(req) >= MIN_INPUT
     /\ TrimmedLength(req) <= MAX_INPUT)
    => (calls = 1 /\ \A i \in DOMAIN responses : responses[i].status # STATUS_BAD_REQUEST)

---------------------------------------------------------------------------
(* C3 *)

\* C3: when the timer fires while the provider call is still pending, the
\* response is exactly 408 {enhanced: 'Request timed out.'}, whether or not
\* the abandoned provider call settles later.
C3_TimeoutResponse ==
    (timerBeatProvider /\ pc = "done") => RespondedWith(TimeoutResponse)

C3_Witness ==
    /\ timerBeatProvider
    /\ pc = "done"
    /\ provider = "fulfilled"
    /\ RespondedWith(TimeoutResponse)

---------------------------------------------------------------------------
(* C4 *)

\* C4 as stated: every provider rejection carrying a rate-limit signal
\* (status 429 or '429' in the message) is answered 200 with the quota text,
\* whatever else its status or message contains.
C4_Claim ==
    (ProviderRejectionHandled /\ RateLimitSignal(race.reason))
    => RespondedWith(QuotaResponse)

\* C4 amended: a provider rejection carrying a rate-limit signal is answered
\* 408 with the timeout text when its message is exactly 'Request timeout',
\* otherwise 500 with the API-key message when it also carries a credential
\* signal, and otherwise 200 with the quota text.
C4_Amended ==
    (ProviderRejectionHandled /\ RateLimitSignal(race.reason))
    => LET e == race.reason
       IN  /\ MessageIs(e, TIMEOUT_MESSAGE) => RespondedWith(TimeoutResponse)
           /\ (~MessageIs(e, TIMEOUT_MESSAGE) /\ CredentialSignal(e))
                 => RespondedWith(ApiKeyResponse(e))
           /\ (~MessageIs(e, TIMEOUT_MESSAGE) /\ ~CredentialSignal(e))
                 => RespondedWith(QuotaResponse)

C4_Witness ==
    /\ ProviderRejectionHandled
    /\ Mentions(race.reason, "429")
    /\ race.reason.status = NoStatus
    /\ RespondedWith(QuotaResponse)

---------------------------------------------------------------------------
(* C5 *)

\* C5: every provider rejection that is an authentication failure (status 403,
\* or a message naming the API key, a leak or 403) is answered 500 with the
\* API-key message.
C5_Claim ==
    (ProviderRejectionHandled /\ CredentialSignal(race.reason))
    => RespondedWith(ApiKeyResponse(race.reason))

---------------------------------------------------------------------------
(* C6 *)

\* C6: when the provider resolves before the timer fires and its text is T,
\* the response is 200 with enhanced equal to T, fragment for fragment.
C6_RoundTrip ==
    (ProviderResultHandled /\ ~race.result.textThrows)
    => /\ Len(responses) = 1
       /\ responses[1].status = STATUS_OK
       /\ responses[1].field = "enhanced"
       /\ responses[1].text = race.result.text

C6_Witness ==
    /\ ProviderResultHandled
    /\ ~race.result.textThrows
    /\ race.result.text = <<"<script>">>
    /\ Len(responses) = 1
    /\ responses[1].text = <<"<script>">>

---------------------------------------------------------------------------
(* C7 *)

\* C7: generateContent is invoked exactly once for a request that passes
\* validation, also after a timeout or a provider error, and not at all for a
\* request that fails validation.
C7_OneCall ==
    pc # "idle" => calls = (IF Parse(req).ok THEN 1 ELSE 0)

C7_Witness ==
    /\ pc = "done"
    /\ calls = 1
    /\ provider = "rejected"
    /\ Len(responses) = 1
    /\ responses[1].status = STATUS_SERVER_ERROR

---------------------------------------------------------------------------
(* C8 *)

\* C8: a request writes at most one response, and once a response is written
\* no later step (the timer firing, the provider settling) adds to it or
\* changes it.
C8_OneResponse ==
    [][/\ Len(responses') <= 1
       /\ Len(responses) = 1 => responses' = responses]_vars

C8_Witness ==
    /\ pc = "done"
    /\ Len(responses) = 1
    /\ timer = "fired"
    /\ ~timerBeatProvider
    /\ provider = "rejected"

---------------------------------------------------------------------------
(* C9 *)

---------------------------------------------------------------------------
(* C10 *)

FailureClasses == <<"timeout", "credential", "quota", "configuration", "generic">>

InClass(c, e) ==
    CASE c = "timeout" -> MessageIs(e, TIMEOUT_MESSAGE)
      [] c = "credential" -> CredentialSignal(e)
      [] c = "quota" -> RateLimitSignal(e)
      [] c = "configuration" -> ConfigurationSignal(e)
      [] c = "generic" -> TRUE

ClassResponse(c, e) ==
    CASE c = "timeout" -> TimeoutResponse
      [] c = "credential" -> ApiKeyResponse(e)
      [] c = "quota" -> QuotaResponse
      [] c = "configuration" -> ConfigResponse(e)
      [] c = "generic" -> GenericResponse(e)

EarliestClass(e) ==
    LET i == CHOOSE k \in DOMAIN FailureClasses :
                 /\ InClass(FailureClasses[k], e)
                 /\ \A j \in 1..(k - 1) : ~InClass(FailureClasses[j], e)
    IN  FailureClasses[i]

\* the error the catch block received: the reason the race rejected with, or
\* the error thrown by result.response.text()
FailureHandled ==
    /\ pc = "done"
    /\ \/ race.state = "rejected"
       \/ race.state = "fulfilled" /\ race.result.textThrows

HandledError == IF race.state = "rejected" THEN race.reason ELSE race.result.err

\* C10: a provider failure is answered with the response of the earliest class
\* it matches in the order timeout, credential, quota, configuration, generic;
\* a failure matching none of the first four is answered with the generic 500.
C10_Priority ==
    FailureHandled
    => RespondedWith(ClassResponse(EarliestClass(HandledError), HandledError))

C10_Witness ==
    /\ FailureHandled
    /\ race.state = "rejected"
    /\ race.reason.status = STATUS_BAD_REQUEST
    /\ Mentions(race.reason, "429")
    /\ RespondedWith(QuotaResponse)

---------------------------------------------------------------------------
(* C12 *)

\* C12: outside the generic class the response body is a fixed text: any
\* provider error of the same class (timeout, credential, quota or
\* configuration), whatever its message, would have been answered the same.
C12_Claim ==
    (FailureHandled /\ EarliestClass(HandledError) # "generic")
    => \A other \in ProviderErrors :
          EarliestClass(other) = EarliestClass(HandledError)
          => RespondedWith(Classify(other))

---------------------------------------------------------------------------
(* C15 *)

\* C15: a 408 response is written only when the timer fired while the
\* provider call was pending; no provider rejection and no error thrown by
\* result.response.text() is answered with 408.
C15_Claim ==
    (pc = "done" /\ \E i \in DOMAIN responses : responses[i].status = STATUS_TIMEOUT)
    => timerBeatProvider

---------------------------------------------------------------------------
(* C14 *)

\* C14: a validated request whose provider call has not settled has its 408
\* response no later than 30 seconds after the provider call was issued.
C14_Claim ==
    (calls = 1 /\ provider = "pending" /\ elapsed > DOCUMENTED_TIMEOUT)
    => RespondedWith(TimeoutResponse)

---------------------------------------------------------------------------
(* C11 *)

\* C11: every GET /health is answered 200 with status 'OK' and the model
\* identifier, whatever requests the same client made before it.
C11_Claim ==
    health # <<>> => health[1] = HealthResponse

---------------------------------------------------------------------------
(* C13 *)

\* C13: whenever the response the client received carries an enhanced string
\* (200, 408 or 500), the output of the hook is that string.
C13_Claim ==
    (fetch.state = "received" /\ responses[1].field = "enhanced")
    => ui.output = responses[1].text

---------------------------------------------------------------------------
(* C16 *)

FetchInFlight == fetch.state \in {"sent", "delivered"}

FetchSettled == fetch.state \in {"received", "unparsed", "failed"}

\* C16 as stated: a call with a non-blank input sets loading, and once its
\* fetch has settled loading is false and output is a non-empty string; a call
\* with a blank input sends no request.
C16_Claim ==
    /\ FetchInFlight => (ui.loading /\ ~Blank(fetch.body))
    /\ FetchSettled => (~ui.loading /\ ui.output # <<>>)

\* C16 amended: a call with a non-blank input sets loading, and once its fetch
\* has settled loading is false and output is the enhanced text of the
\* server's response when that response is 2xx and parses, and the fixed error
\* text otherwise; output is non-empty unless that enhanced text is itself
\* empty.  A call with a blank input sends no request.
C16_Amended ==
    /\ FetchInFlight => (ui.loading /\ ~Blank(fetch.body))
    /\ FetchSettled =>
          /\ ~ui.loading
          /\ ~Blank(fetch.body)
          /\ IF fetch.state = "received" /\ responses[1].status \in 200..299
             THEN ui.output = responses[1].text
             ELSE ui.output = CLIENT_ERROR_TEXT
          /\ ui.output = <<>> =>
                /\ fetch.state = "received"
                /\ responses[1].status = STATUS_OK
                /\ responses[1].text = <<>>

C16_Witness ==
    /\ fetch.state = "failed"
    /\ pc = "awaiting"
    /\ ~ui.loading
    /\ ui.output = CLIENT_ERROR_TEXT

=============================================================================
